---- MODULE Spec2Model ----
(***************************************************************************)
(* Model of knowledge_representation/map_loader.py: the extraction of      *)
(* points, poses, regions and doors from an SVG annotation document.       *)
(*                                                                         *)
(* Conventions                                                             *)
(*  - A number is an integer counting ten-thousandths (1.5 is 15000), so   *)
(*    that float_s3, which rounds to three decimals, is not the identity.  *)
(*  - The text of a transform attribute is a sequence of one-character     *)
(*    strings, so that the regular expression is matched on characters.    *)
(*  - The document is an <svg> root holding an optional <image> and a      *)
(*    sequence of <g> groups whose children are leaf elements.             *)
(*  - svgpathtools.parse_path is an external library: a path's "d" is held *)
(*    as the sequence of segments it parses to.                            *)
(***************************************************************************)
EXTENDS Integers, Sequences, FiniteSets, TLC

VARIABLES
    pc,               \* position in load_map_from_yaml / the function under test
    lazyMap,          \* TRUE: map() is a lazy iterator (Python 3); FALSE: a list (Python 2)
    svg,              \* the parsed document
    map_info,         \* the YAML metadata record
    group,            \* argument of get_group_transform
    ret,              \* value returned by get_group_transform
    points, poses, regions, doors,   \* the four collections
    path_poses, path_regions,        \* load_svg's locals of the same names
    pixel,            \* the collections as load_svg returned them
    warnings,         \* every warn() issued so far, in order
    problems,         \* the list check_svg_valid returns
    raised            \* the exception that ended the run, or "none"

vars == <<pc, lazyMap, svg, map_info, group, ret,
          points, poses, regions, doors, path_poses, path_regions, pixel, warnings, problems, raised>>

(***************************************************************************)
(* Bounds                                                                  *)
(***************************************************************************)
\* largest number of <g> groups in a document
MaxGroups == 2
\* largest number of arguments written in a generated transform function
MaxArgs == 2

(***************************************************************************)
(* Character strings                                                       *)
(***************************************************************************)
Digits == {"0", "1", "2", "3", "4", "5", "6", "7", "8", "9"}

DigitVal(c) ==
    CASE c = "0" -> 0 [] c = "1" -> 1 [] c = "2" -> 2 [] c = "3" -> 3
      [] c = "4" -> 4 [] c = "5" -> 5 [] c = "6" -> 6 [] c = "7" -> 7
      [] c = "8" -> 8 [] c = "9" -> 9

AllDigits(s) == \A k \in 1..Len(s) : s[k] \in Digits

\* s[i..j-1]
Sub(s, i, j) == SubSeq(s, i, j - 1)

StartsWith(s, p) == Len(s) >= Len(p) /\ SubSeq(s, 1, Len(p)) = p

RECURSIVE Pow10(_)
Pow10(n) == IF n = 0 THEN 1 ELSE 10 * Pow10(n - 1)

RECURSIVE DigitsVal(_)
DigitsVal(s) ==
    IF s = <<>> THEN 0 ELSE 10 * DigitsVal(SubSeq(s, 1, Len(s) - 1)) + DigitVal(s[Len(s)])

\* float(string) for a string float_pattern matches, in ten-thousandths; the strings
\* of this model carry at most four decimals
PyFloat(s) ==
    LET neg   == s # <<>> /\ s[1] = "-"
        body  == IF s # <<>> /\ s[1] \in {"+", "-"} THEN Tail(s) ELSE s
        dots  == {k \in 1..Len(body) : body[k] = "."}
        dot   == IF dots = {} THEN Len(body) + 1 ELSE CHOOSE k \in dots : TRUE
        whole == SubSeq(body, 1, dot - 1)
        frac  == SubSeq(body, dot + 1, Len(body))
        mag   == DigitsVal(whole) * 10000 + DigitsVal(frac) * Pow10(4 - Len(frac))
    IN IF neg THEN 0 - mag ELSE mag

\* round(x, 3): to the nearest thousandth (ten units), a tie going to the even one
Round3(v) ==
    LET lo  == 10 * (v \div 10)
        rem == v - lo
    IN IF rem < 5 THEN lo
       ELSE IF rem > 5 THEN lo + 10
       ELSE IF (lo \div 10) % 2 = 0 THEN lo ELSE lo + 10

float_s3(v) == Round3(v)

(***************************************************************************)
(* translation_pattern and get_group_transform                             *)
(***************************************************************************)
\* s, whole, is a word of float_pattern:  [-+]?\d*\.\d+ | [-+]?\d+
float_pattern(s) ==
    LET body == IF s # <<>> /\ s[1] \in {"+", "-"} THEN Tail(s) ELSE s
    IN \/ \E d \in 1..Len(body) :
             /\ body[d] = "."
             /\ AllDigits(SubSeq(body, 1, d - 1))
             /\ d < Len(body)
             /\ AllDigits(SubSeq(body, d + 1, Len(body)))
       \/ Len(body) >= 1 /\ AllDigits(body)

W_translate == <<"t", "r", "a", "n", "s", "l", "a", "t", "e">>
W_scale     == <<"s", "c", "a", "l", "e">>
W_rotate    == <<"r", "o", "t", "a", "t", "e">>
W_matrix    == <<"m", "a", "t", "r", "i", "x">>

\* the matches of  ^translate\((float)\,(float)\)  at the start of s, each as the
\* pair of its two captured groups; re.match does not require the end of s
translation_pattern(s) ==
    LET a == Len(W_translate) + 2
    IN IF ~StartsWith(s, W_translate \o <<"(">>) THEN {}
       ELSE {<<Sub(s, a, j), Sub(s, j + 1, k)>> :
               <<j, k>> \in {jk \in (a..Len(s)) \X (a..Len(s)) :
                                /\ jk[1] < jk[2]
                                /\ s[jk[1]] = ","
                                /\ s[jk[2]] = ")"
                                /\ float_pattern(Sub(s, a, jk[1]))
                                /\ float_pattern(Sub(s, jk[1] + 1, jk[2]))}}

\* get_group_transform(group): [ok |-> TRUE, t |-> <<dx, dy>>] or RuntimeError
get_group_transform(g) ==
    IF "transform" \notin DOMAIN g.attrib THEN [ok |-> TRUE, t |-> <<0, 0>>]
    ELSE LET translate_match == translation_pattern(g.attrib["transform"])
         IN IF translate_match = {} THEN [ok |-> FALSE, t |-> <<0, 0>>]
            ELSE LET m == CHOOSE m \in translate_match : TRUE
                 IN [ok |-> TRUE,
                     t  |-> <<float_s3(PyFloat(m[1])), float_s3(PyFloat(m[2]))>>]

(***************************************************************************)
(* Elements                                                                *)
(***************************************************************************)
EmptyAttrib == [k \in {} |-> 0]

\* .text of a text element that holds no character data of its own
NoText == 0
\* a text element with no <tspan> child
NoTspan == 0

Leaf(tag, attrib) == [tag |-> tag, attrib |-> attrib, text |-> NoText, tspan |-> NoTspan]

\* what find() returns when nothing matches
NoElement == Leaf("None", EmptyAttrib)

circle_el(cx, cy) == Leaf("circle", [cx |-> cx, cy |-> cy])
circle_annotation(cx, cy) ==
    Leaf("circle", [class |-> "circle_annotation", cx |-> cx, cy |-> cy])
pose_line_annotation(x1, y1, x2, y2) ==
    Leaf("line", [class |-> "pose_line_annotation", x1 |-> x1, y1 |-> y1, x2 |-> x2, y2 |-> y2])
region_annotation(pts) ==
    Leaf("polygon", [class |-> "region_annotation", points |-> pts])
path_el(d) == Leaf("path", [d |-> d])
rect_el == Leaf("rect", EmptyAttrib)
\* <text>name</text>
text_el(name) == [tag |-> "text", attrib |-> EmptyAttrib, text |-> name, tspan |-> NoTspan]
\* <text><tspan>name</tspan></text>, as Inkscape writes it
tspan_el(name) == [tag |-> "text", attrib |-> EmptyAttrib, text |-> NoText, tspan |-> name]

\* segments as svgpathtools.parse_path returns them
Line(a, b) == [kind |-> "Line", start |-> a, end |-> b]
CubicBezier(a, b) == [kind |-> "CubicBezier", start |-> a, end |-> b]

g_el(attrib, children) == [attrib |-> attrib, children |-> children]

(***************************************************************************)
(* The documents of the model                                              *)
(***************************************************************************)
\* the names written in group i: whole numbers, distinct across groups
Name(i, j) == 10 * i + j

\* a coordinate of group i, with a fourth decimal for float_s3 to round
U(i, n) == (10 * i + n) * 10000 + 4
V(i, n) == (10 * i + n) * 10000 + 6

P(i, a, b) == <<U(i, a), V(i, b)>>

T_translate == W_translate \o <<"(", "5", ",", "-", "2", ".", "5", "0", "0", "6", ")">>
T_scale     == W_scale \o <<"(", "2", ")">>
T_chained   == W_translate \o <<"(", "1", ",", "2", ")", " ">> \o T_scale

Transforms == {<<>>, T_translate, T_scale, T_chained}

TransformAttrib(t) == IF t = <<>> THEN EmptyAttrib ELSE [transform |-> t]

ShapeKinds ==
    {"TaggedPoint", "TaggedPose", "TaggedRegion", "TaggedRegion2",
     "Point", "PointNoLabel",
     "PathPose", "PathRegion3", "PathRegion2", "PathEmpty", "PathCurve", "PathNoLabel",
     "Door", "DoorMarked", "DoorCurve", "DoorThreeCircles", "DoorNoPath", "DoorNoLabel",
     "TaggedNoText", "TaggedTwoTexts", "TwoTagged", "TaggedPoseRegion", "Other"}

\* the children of group i when it is of kind k
Children(k, i) ==
    CASE k = "TaggedPoint"   -> <<circle_annotation(U(i, 1), V(i, 2)), text_el(Name(i, 1))>>
      [] k = "TaggedPose"    -> <<pose_line_annotation(U(i, 0), V(i, 0), U(i, 3), V(i, 0)),
                                  text_el(Name(i, 1))>>
      [] k = "TaggedRegion"  -> <<region_annotation(<<P(i, 0, 0), P(i, 3, 0), P(i, 3, 3), P(i, 0, 3)>>),
                                  text_el(Name(i, 1))>>
      [] k = "TaggedRegion2" -> <<region_annotation(<<P(i, 0, 0), P(i, 3, 3)>>),
                                  text_el(Name(i, 1))>>
      [] k = "Point"         -> <<circle_el(U(i, 1), V(i, 2)), tspan_el(Name(i, 1))>>
      [] k = "PointNoLabel"  -> <<circle_el(U(i, 1), V(i, 2)), rect_el>>
      [] k = "PathPose"      -> <<path_el(<<Line(P(i, 0, 0), P(i, 3, 0))>>), tspan_el(Name(i, 1))>>
      [] k = "PathRegion3"   -> <<path_el(<<Line(P(i, 0, 0), P(i, 3, 0)), Line(P(i, 3, 0), P(i, 3, 3)),
                                           Line(P(i, 3, 3), P(i, 0, 0))>>),
                                  tspan_el(Name(i, 1))>>
      [] k = "PathRegion2"   -> <<path_el(<<Line(P(i, 0, 0), P(i, 3, 0)), Line(P(i, 3, 0), P(i, 0, 0))>>),
                                  text_el(Name(i, 1))>>
      [] k = "PathEmpty"     -> <<path_el(<<>>), text_el(Name(i, 1))>>
      [] k = "PathCurve"     -> <<path_el(<<Line(P(i, 0, 0), P(i, 3, 0)), CubicBezier(P(i, 3, 0), P(i, 0, 0))>>),
                                  text_el(Name(i, 1))>>
      [] k = "PathNoLabel"   -> <<path_el(<<Line(P(i, 0, 0), P(i, 3, 0))>>), rect_el>>
      [] k = "Door"          -> <<path_el(<<Line(P(i, 0, 0), P(i, 0, 5))>>),
                                  circle_el(U(i, 1), V(i, 2)), circle_el(U(i, 3), V(i, 2)),
                                  tspan_el(Name(i, 1))>>
      [] k = "DoorMarked"    -> <<path_el(<<Line(P(i, 0, 0), P(i, 0, 5))>>),
                                  circle_annotation(U(i, 1), V(i, 2)), circle_annotation(U(i, 3), V(i, 2)),
                                  text_el(Name(i, 1))>>
      [] k = "DoorCurve"     -> <<path_el(<<CubicBezier(P(i, 0, 0), P(i, 0, 5))>>),
                                  circle_el(U(i, 1), V(i, 2)), circle_el(U(i, 3), V(i, 2)),
                                  tspan_el(Name(i, 1))>>
      [] k = "DoorThreeCircles" -> <<circle_el(U(i, 1), V(i, 2)), circle_el(U(i, 3), V(i, 2)),
                                     circle_el(U(i, 5), V(i, 2)), tspan_el(Name(i, 1))>>
      [] k = "DoorNoPath"    -> <<rect_el, circle_el(U(i, 1), V(i, 2)), circle_el(U(i, 3), V(i, 2)),
                                  tspan_el(Name(i, 1))>>
      [] k = "DoorNoLabel"   -> <<path_el(<<Line(P(i, 0, 0), P(i, 0, 5))>>),
                                  circle_el(U(i, 1), V(i, 2)), circle_el(U(i, 3), V(i, 2)),
                                  circle_el(U(i, 5), V(i, 2))>>
      [] k = "TaggedNoText"  -> <<circle_annotation(U(i, 1), V(i, 2))>>
      [] k = "TaggedTwoTexts" -> <<circle_annotation(U(i, 1), V(i, 2)), text_el(Name(i, 1)),
                                   text_el(Name(i, 2))>>
      [] k = "TwoTagged"     -> <<circle_annotation(U(i, 1), V(i, 2)), circle_annotation(U(i, 3), V(i, 4)),
                                  text_el(Name(i, 1))>>
      [] k = "TaggedPoseRegion" ->
             <<pose_line_annotation(U(i, 0), V(i, 0), U(i, 3), V(i, 0)), text_el(Name(i, 1)),
               region_annotation(<<P(i, 0, 0), P(i, 3, 0), P(i, 3, 3)>>), text_el(Name(i, 2))>>
      [] k = "Other"         -> <<rect_el>>

\* the kinds that are written with each transform
KindsWith(t) ==
    IF t = <<>> THEN ShapeKinds
    ELSE IF t = T_chained THEN {"Point", "TaggedRegion"}
    ELSE {"TaggedPoint", "TaggedPose", "TaggedRegion", "Point", "PathPose", "PathRegion3", "Door"}

GroupKinds == {kt \in ShapeKinds \X Transforms : kt[1] \in KindsWith(kt[2])}

Group(kt, i) == g_el(TransformAttrib(kt[2]), Children(kt[1], i))

RECURSIVE SeqsUpTo(_, _)
SeqsUpTo(S, n) ==
    IF n = 0 THEN {<<>>}
    ELSE LET shorter == SeqsUpTo(S, n - 1)
         IN shorter \cup {Append(q, x) : q \in {r \in shorter : Len(r) = n - 1}, x \in S}

\* the <image> child of the root
image_el(attrib) == Leaf("image", attrib)

Document(rootAttrib, image, kinds) ==
    [attrib |-> rootAttrib, image |-> image,
     groups |-> [i \in 1..Len(kinds) |-> Group(kinds[i], i)]]

(***************************************************************************)
(* ElementTree queries                                                     *)
(***************************************************************************)
\* an element is referred to by <<i, j>>: child j of group i
El(doc, r) == doc.groups[r[1]].children[r[2]]

RECURSIVE RefsFrom(_, _)
RefsFrom(doc, i) ==
    IF i > Len(doc.groups) THEN <<>>
    ELSE [j \in 1..Len(doc.groups[i].children) |-> <<i, j>>] \o RefsFrom(doc, i + 1)

\* every element below the groups, in document order
AllRefs(doc) == RefsFrom(doc, 1)

HasClass(e, tag, cls) ==
    e.tag = tag /\ "class" \in DOMAIN e.attrib /\ e.attrib["class"] = cls

\* tree.findall(".//tag[@class='cls']")
findall_class(doc, tag, cls) ==
    SelectSeq(AllRefs(doc), LAMBDA r : HasClass(El(doc, r), tag, cls))

\* tree.findall(".//tag[@class='cls']/../text"): the text children of every parent,
\* each parent once, that holds such an element
findall_class_parent_text(doc, tag, cls) ==
    SelectSeq(AllRefs(doc),
              LAMBDA r : /\ El(doc, r).tag = "text"
                         /\ \E j \in 1..Len(doc.groups[r[1]].children) :
                               HasClass(doc.groups[r[1]].children[j], tag, cls))

\* tree.findall(".//g[tag]"): the groups with a child of that tag
findall_group_with(doc, tag) ==
    SelectSeq([i \in 1..Len(doc.groups) |-> i],
              LAMBDA i : \E j \in 1..Len(doc.groups[i].children) :
                            doc.groups[i].children[j].tag = tag)

\* the positions of g's children of that tag, in order
ChildrenOf(g, tag) ==
    SelectSeq([j \in 1..Len(g.children) |-> j], LAMBDA j : g.children[j].tag = tag)

\* map(parent_map.__getitem__, annotations)
parents_of(annotations) == [k \in 1..Len(annotations) |-> annotations[k][1]]

Min(a, b) == IF a < b THEN a ELSE b

\* the number of triples zip() yields
ZipLen(a, b, c) == Min(Len(a), Min(Len(b), Len(c)))

\* get_text_from_group(group): the first tspan, else the first text, else None;
\* found is FALSE for None, text is the element's .text
get_text_from_group(g) ==
    LET texts  == ChildrenOf(g, "text")
        tspans == SelectSeq(texts, LAMBDA j : g.children[j].tspan # NoTspan)
    IN IF tspans # <<>> THEN [found |-> TRUE, text |-> g.children[tspans[1]].tspan]
       ELSE IF texts # <<>> THEN [found |-> TRUE, text |-> g.children[texts[1]].text]
       ELSE [found |-> FALSE, text |-> NoText]

(***************************************************************************)
(* Results and warnings                                                    *)
(*   src, in a result or a warning, is not data of the program: it records *)
(*   the element or group the entry was read from.                         *)
(***************************************************************************)
Warning(fn, name, detail, src) == [fn |-> fn, name |-> name, detail |-> detail, src |-> src]

Plus(p, t) == <<p[1] + t[1], p[2] + t[2]>>

Raise(exception) == [out |-> <<>>, warns |-> <<>>, raised |-> exception]

\* the end of a loop
Done == Raise("none")

\* the iteration warns and the loop goes on to the rest
Skip(w, rest) == [out |-> rest.out, warns |-> <<w>> \o rest.warns, raised |-> rest.raised]

\* the iteration appends and the loop goes on to the rest
Emit(x, rest) == [out |-> <<x>> \o rest.out, warns |-> rest.warns, raised |-> rest.raised]

(***************************************************************************)
(* process_point_annotations                                               *)
(***************************************************************************)
\* one iteration: lines 364-373
point_annotation_step(doc, text, point, parent, rest) ==
    LET name == El(doc, text).text
        tr   == get_group_transform(doc.groups[parent])
        cx   == El(doc, point).attrib["cx"]
        cy   == El(doc, point).attrib["cy"]
    IN IF ~tr.ok
       THEN Skip(Warning("point", name, doc.groups[parent].attrib["transform"], parent), rest)
       ELSE Emit([name  |-> name,
                  coord |-> <<float_s3(cx) + tr.t[1], float_s3(cy) + tr.t[2]>>,
                  src   |-> point], rest)

RECURSIVE point_annotations_from(_, _, _, _, _)
point_annotations_from(doc, point_names, point_annotations, point_groups, k) ==
    IF k > ZipLen(point_annotations, point_names, point_groups) THEN Done
    ELSE point_annotation_step(doc, point_names[k], point_annotations[k], point_groups[k],
            point_annotations_from(doc, point_names, point_annotations, point_groups, k + 1))

process_point_annotations(doc, point_names, point_annotations, point_groups) ==
    point_annotations_from(doc, point_names, point_annotations, point_groups, 1)

(***************************************************************************)
(* process_pose_annotations                                                *)
(***************************************************************************)
\* one iteration: lines 380-390
pose_annotation_step(doc, text, pose, parent, rest) ==
    LET name == El(doc, text).text
        tr   == get_group_transform(doc.groups[parent])
        at   == El(doc, pose).attrib
    IN IF ~tr.ok
       THEN Skip(Warning("pose", name, doc.groups[parent].attrib["transform"], parent), rest)
       ELSE Emit([name |-> name,
                  p1   |-> <<float_s3(at["x1"]) + tr.t[1], float_s3(at["y1"]) + tr.t[2]>>,
                  p2   |-> <<float_s3(at["x2"]) + tr.t[1], float_s3(at["y2"]) + tr.t[2]>>,
                  src  |-> pose], rest)

RECURSIVE pose_annotations_from(_, _, _, _, _)
pose_annotations_from(doc, pose_names, pose_annotations, pose_groups, k) ==
    IF k > ZipLen(pose_annotations, pose_names, pose_groups) THEN Done
    ELSE pose_annotation_step(doc, pose_names[k], pose_annotations[k], pose_groups[k],
            pose_annotations_from(doc, pose_names, pose_annotations, pose_groups, k + 1))

process_pose_annotations(doc, pose_names, pose_annotations, pose_groups) ==
    pose_annotations_from(doc, pose_names, pose_annotations, pose_groups, 1)

(***************************************************************************)
(* process_region_annotations                                              *)
(*   The vertices are map(lambda p: p + translate, poly_points). Where     *)
(*   map() is lazy the lambda runs after the function has returned and     *)
(*   reads the local translate as the last iteration left it.              *)
(***************************************************************************)
\* translate as the loop of process_region_annotations leaves it
last_translate(doc, names, annotations, parents) ==
    LET n == ZipLen(annotations, names, parents)
    IN IF n = 0 THEN <<0, 0>>
       ELSE IF get_group_transform(doc.groups[parents[n]]).ok
       THEN get_group_transform(doc.groups[parents[n]]).t
       ELSE <<0, 0>>

\* one iteration: lines 397-409; late is translate as the lambda reads it where
\* map() is lazy
region_annotation_step(doc, text, region, parent, lazy, late, rest) ==
    LET name == El(doc, text).text
        tr   == get_group_transform(doc.groups[parent])
        translate   == IF lazy THEN late ELSE tr.t
        points_strs == El(doc, region).attrib["points"]
    IN IF ~tr.ok
       THEN Skip(Warning("region", name, doc.groups[parent].attrib["transform"], parent), rest)
       ELSE Emit([name   |-> name,
                  points |-> [v \in 1..Len(points_strs) |->
                                Plus(<<float_s3(points_strs[v][1]), float_s3(points_strs[v][2])>>,
                                     translate)],
                  src    |-> region], rest)

RECURSIVE region_annotations_from(_, _, _, _, _, _, _)
region_annotations_from(doc, region_names, region_annotations, region_groups, lazy, late, k) ==
    IF k > ZipLen(region_annotations, region_names, region_groups) THEN Done
    ELSE region_annotation_step(doc, region_names[k], region_annotations[k], region_groups[k], lazy, late,
            region_annotations_from(doc, region_names, region_annotations, region_groups,
                                    lazy, late, k + 1))

process_region_annotations(doc, region_names, region_annotations, region_groups, lazy) ==
    region_annotations_from(doc, region_names, region_annotations, region_groups, lazy,
        last_translate(doc, region_names, region_annotations, region_groups), 1)

(***************************************************************************)
(* extract_line_from_path and process_door_groups                          *)
(***************************************************************************)
\* group.find(tag): the first child of that tag, or None
find(g, tag) ==
    IF ChildrenOf(g, tag) = <<>> THEN NoElement ELSE g.children[ChildrenOf(g, tag)[1]]

is_line(path_part) == path_part.kind = "Line"

Rounded(p) == <<float_s3(p[1]), float_s3(p[2])>>

\* raised is "none" (line is the result), "RuntimeError", or "AttributeError" when
\* path is None
extract_line_from_path(path, translate) ==
    IF path.tag = "None" THEN [raised |-> "AttributeError", line |-> <<>>]
    ELSE IF Len(path.attrib["d"]) = 1 /\ is_line(path.attrib["d"][1])
    THEN [raised |-> "none",
          line   |-> <<Plus(Rounded(path.attrib["d"][1].start), translate),
                       Plus(Rounded(path.attrib["d"][1].end), translate)>>]
    ELSE [raised |-> "RuntimeError", line |-> <<>>]

\* lines 261-276, once the name and the translation are known
door(door_group, i, name, translate, circles, door_line, rest) ==
    IF Len(circles) # 2
    THEN Skip(Warning("door approach points", name, Len(circles), i), rest)
    ELSE IF door_line.raised = "AttributeError" THEN Raise("AttributeError")
    ELSE IF door_line.raised = "RuntimeError"
    THEN Skip(Warning("door line", name, 0, i), rest)
    ELSE Emit([name |-> name, line |-> door_line.line,
               approach_points |->
                   [c \in 1..Len(circles) |->
                      Plus(Rounded(<<door_group.children[circles[c]].attrib["cx"],
                                     door_group.children[circles[c]].attrib["cy"]>>), translate)],
               src |-> i,
               approach_src |-> [c \in 1..Len(circles) |-> <<i, circles[c]>>]], rest)

\* one iteration: lines 253-276
door_group_step(door_group, i, text, tr, rest) ==
    IF ~text.found THEN Raise("AttributeError")
    ELSE IF ~tr.ok
    THEN Skip(Warning("door group", text.text, door_group.attrib["transform"], i), rest)
    ELSE door(door_group, i, text.text, tr.t, ChildrenOf(door_group, "circle"),
              extract_line_from_path(find(door_group, "path"), tr.t), rest)

RECURSIVE door_groups_from(_, _, _)
door_groups_from(doc, door_groups, k) ==
    IF k > Len(door_groups) THEN Done
    ELSE door_group_step(doc.groups[door_groups[k]], door_groups[k],
            get_text_from_group(doc.groups[door_groups[k]]),
            get_group_transform(doc.groups[door_groups[k]]),
            door_groups_from(doc, door_groups, k + 1))

process_door_groups(doc, door_groups) == door_groups_from(doc, door_groups, 1)

(***************************************************************************)
(* process_paths                                                           *)
(*   The vertices of a region are again a lazy map() over a lambda that    *)
(*   reads translate.                                                      *)
(***************************************************************************)
\* translate as the iterations up to the k-th leave it: an iteration that skips
\* its group before line 326 leaves it as it was
RECURSIVE paths_translate(_, _, _)
paths_translate(doc, path_groups, k) ==
    IF k = 0 THEN <<0, 0>>
    ELSE IF \/ Len(doc.groups[path_groups[k]].children) # 2
            \/ ~get_text_from_group(doc.groups[path_groups[k]]).found
    THEN paths_translate(doc, path_groups, k - 1)
    ELSE IF get_group_transform(doc.groups[path_groups[k]]).ok
    THEN get_group_transform(doc.groups[path_groups[k]]).t
    ELSE <<0, 0>>

all_lines(path_geom) == \A n \in 1..Len(path_geom) : is_line(path_geom[n])

\* lines 334-357, once the name and the translation are known
path_geometry(i, name, src, pose, path_geom, translate, rest) ==
    IF pose.raised = "none"
    THEN Emit([kind |-> "pose", name |-> name, p1 |-> pose.line[1], p2 |-> pose.line[2],
               src |-> src], rest)
    ELSE IF all_lines(path_geom)
    THEN Emit([kind |-> "region", name |-> name,
               points |-> [n \in 1..Len(path_geom) |-> Plus(Rounded(path_geom[n].start), translate)],
               src |-> src], rest)
    ELSE Skip(Warning("path", name, 0, i), rest)

\* one iteration: lines 315-357
path_group_step(g, i, text, tr, lazy, late, rest) ==
    IF Len(g.children) # 2 THEN rest
    ELSE IF ~text.found THEN Skip(Warning("path group label", NoText, 0, i), rest)
    ELSE IF ~tr.ok THEN Skip(Warning("path group", text.text, g.attrib["transform"], i), rest)
    ELSE path_geometry(i, text.text, <<i, ChildrenOf(g, "path")[1]>>,
                       extract_line_from_path(find(g, "path"), tr.t),
                       find(g, "path").attrib["d"],
                       IF lazy THEN late ELSE tr.t, rest)

\* out holds the poses and the regions in the order found, told apart by kind
RECURSIVE paths_from(_, _, _, _, _)
paths_from(doc, path_groups, lazy, late, k) ==
    IF k > Len(path_groups) THEN Done
    ELSE path_group_step(doc.groups[path_groups[k]], path_groups[k],
            get_text_from_group(doc.groups[path_groups[k]]),
            get_group_transform(doc.groups[path_groups[k]]),
            lazy, late,
            paths_from(doc, path_groups, lazy, late, k + 1))

OfKind(out, kind) == SelectSeq(out, LAMBDA x : x.kind = kind)

PosesOf(out) ==
    [n \in 1..Len(out) |-> [name |-> out[n].name, p1 |-> out[n].p1, p2 |-> out[n].p2,
                            src |-> out[n].src]]

RegionsOf(out) ==
    [n \in 1..Len(out) |-> [name |-> out[n].name, points |-> out[n].points, src |-> out[n].src]]

PathsResult(r) ==
    [poses   |-> PosesOf(OfKind(r.out, "pose")),
     regions |-> RegionsOf(OfKind(r.out, "region")),
     warns   |-> r.warns]

\* [poses, regions, warns]
process_paths(doc, path_groups, lazy) ==
    PathsResult(paths_from(doc, path_groups, lazy,
                           paths_translate(doc, path_groups, Len(path_groups)), 1))

(***************************************************************************)
(* load_svg, lines 207-222: the two-child circle groups                    *)
(***************************************************************************)
\* one iteration
point_group_step(g, i, text, tr, circle, rest) ==
    IF ~text.found THEN Raise("AttributeError")
    ELSE IF ~tr.ok THEN Skip(Warning("point group", text.text, g.attrib["transform"], i), rest)
    ELSE IF "class" \in DOMAIN circle.attrib THEN rest
    ELSE Emit([name  |-> text.text,
               coord |-> Plus(Rounded(<<circle.attrib["cx"], circle.attrib["cy"]>>), tr.t),
               src   |-> <<i, ChildrenOf(g, "circle")[1]>>], rest)

RECURSIVE point_groups_from(_, _, _)
point_groups_from(doc, point_groups, k) ==
    IF k > Len(point_groups) THEN Done
    ELSE point_group_step(doc.groups[point_groups[k]], point_groups[k],
            get_text_from_group(doc.groups[point_groups[k]]),
            get_group_transform(doc.groups[point_groups[k]]),
            find(doc.groups[point_groups[k]], "circle"),
            point_groups_from(doc, point_groups, k + 1))

extra_points(doc, point_groups) == point_groups_from(doc, point_groups, 1)

\* the groups load_svg selects
circle_groups(doc) == findall_group_with(doc, "circle")
point_groups(doc) == SelectSeq(circle_groups(doc), LAMBDA i : Len(doc.groups[i].children) = 2)
door_groups(doc)  == SelectSeq(circle_groups(doc), LAMBDA i : Len(doc.groups[i].children) = 4)
path_groups(doc)  == findall_group_with(doc, "path")

(***************************************************************************)
(* check_svg_valid                                                         *)
(***************************************************************************)
RECURSIVE Str(_)
\* "{}".format(n) for a whole number n >= 0
Str(n) ==
    LET d == <<"0", "1", "2", "3", "4", "5", "6", "7", "8", "9">>
    IN IF n < 10 THEN <<d[n + 1]>> ELSE Str(n \div 10) \o <<d[(n % 10) + 1]>>

\* "0 0 {} {}".format(width, height)
target_viewbox(info) == <<"0", " ", "0", " ">> \o Str(info.width) \o <<" ">> \o Str(info.height)

Checked(probs) == [raised |-> "none", problems |-> probs]
CheckRaise(exception) == [raised |-> exception, problems |-> <<>>]

\* the second check runs only if the first returned
Then(a, b) ==
    IF a.raised # "none" THEN a
    ELSE [raised |-> b.raised, problems |-> a.problems \o b.problems]

ori_is_zero(element) ==
    IF element.tag = "None" THEN CheckRaise("AttributeError")
    ELSE IF "x" \notin DOMAIN element.attrib THEN Checked(<<>>)
    ELSE IF "y" \notin DOMAIN element.attrib THEN CheckRaise("KeyError")
    ELSE IF element.attrib["x"] # 0 \/ element.attrib["y"] # 0
    THEN Checked(<<[kind |-> "origin", of |-> element.tag]>>)
    ELSE Checked(<<>>)

dim_match(element, w, h) ==
    IF element.tag = "None" THEN CheckRaise("AttributeError")
    ELSE IF "width" \notin DOMAIN element.attrib THEN Checked(<<>>)
    ELSE IF "height" \notin DOMAIN element.attrib THEN CheckRaise("KeyError")
    ELSE IF element.attrib["width"] # w * 10000 \/ element.attrib["height"] # h * 10000
    THEN Checked(<<[kind |-> "dimensions", of |-> element.tag]>>)
    ELSE Checked(<<>>)

viewbox_check(root, info) ==
    IF "viewBox" \notin DOMAIN root.attrib THEN CheckRaise("KeyError")
    ELSE IF root.attrib["viewBox"] # target_viewbox(info)
    THEN Checked(<<[kind |-> "viewbox", of |-> root.tag]>>)
    ELSE Checked(<<>>)

check_svg_valid(doc, info) ==
    LET root == Leaf("svg", doc.attrib)
    IN Then(viewbox_check(root, info),
       Then(dim_match(root, info.width, info.height),
       Then(ori_is_zero(doc.image),
            dim_match(doc.image, info.width, info.height))))

(***************************************************************************)
(* transform_to_map_coords                                                 *)
(***************************************************************************)
\* knowledge_representation.map_image_utils.point_to_map_coords: the pixel is
\* scaled by the resolution, its vertical axis flipped, and moved to the origin
point_to_map_coords(info, point) ==
    <<info.origin[1] + point[1] * info.resolution,
      info.origin[2] + (info.height * 10000 - point[2]) * info.resolution>>

\* transform_to_map_coords with lines 434-435 left out: the approach points of a
\* door stay in pixels
transform_to_map_coords_pixel_approach(info, pts, pss, rgs, drs) ==
    [points  |-> [i \in 1..Len(pts) |->
                    [pts[i] EXCEPT !.coord = point_to_map_coords(info, pts[i].coord)]],
     poses   |-> [i \in 1..Len(pss) |->
                    [pss[i] EXCEPT !.p1 = point_to_map_coords(info, pss[i].p1),
                                   !.p2 = point_to_map_coords(info, pss[i].p2)]],
     regions |-> [i \in 1..Len(rgs) |->
                    [rgs[i] EXCEPT !.points =
                        [v \in 1..Len(rgs[i].points) |-> point_to_map_coords(info, rgs[i].points[v])]]],
     doors   |-> [i \in 1..Len(drs) |->
                    [drs[i] EXCEPT !.line = <<point_to_map_coords(info, drs[i].line[1]),
                                              point_to_map_coords(info, drs[i].line[2])>>]]]

transform_to_map_coords(info, pts, pss, rgs, drs) ==
    [points  |-> [i \in 1..Len(pts) |->
                    [pts[i] EXCEPT !.coord = point_to_map_coords(info, pts[i].coord)]],
     poses   |-> [i \in 1..Len(pss) |->
                    [pss[i] EXCEPT !.p1 = point_to_map_coords(info, pss[i].p1),
                                   !.p2 = point_to_map_coords(info, pss[i].p2)]],
     regions |-> [i \in 1..Len(rgs) |->
                    [rgs[i] EXCEPT !.points =
                        [v \in 1..Len(rgs[i].points) |-> point_to_map_coords(info, rgs[i].points[v])]]],
     doors   |-> [i \in 1..Len(drs) |->
                    [drs[i] EXCEPT !.line = <<point_to_map_coords(info, drs[i].line[1]),
                                              point_to_map_coords(info, drs[i].line[2])>>,
                                   !.approach_points =
                                       <<point_to_map_coords(info, drs[i].approach_points[1]),
                                         point_to_map_coords(info, drs[i].approach_points[2])>>]]]

(***************************************************************************)
(* load_map_from_yaml, from line 130 on, and load_svg                      *)
(***************************************************************************)
Collections == [points |-> points, poses |-> poses, regions |-> regions, doors |-> doors]

NoCollections == [points |-> <<>>, poses |-> <<>>, regions |-> <<>>, doors |-> <<>>]

CheckSvgValid ==
    /\ pc = "check_svg_valid"
    /\ LET r == check_svg_valid(svg, map_info)
       IN IF r.raised # "none"
          THEN /\ raised' = r.raised
               /\ pc' = "raised"
               /\ UNCHANGED <<problems, warnings>>
          ELSE /\ problems' = r.problems
               /\ warnings' = warnings \o
                    [n \in 1..Len(r.problems) |->
                       Warning("check_svg_valid", NoText, r.problems[n].kind, 0)]
               /\ pc' = "process_point_annotations"
               /\ UNCHANGED raised
    /\ UNCHANGED <<lazyMap, svg, map_info, group, ret, points, poses, regions, doors,
                   path_poses, path_regions, pixel>>

ProcessPointAnnotations ==
    /\ pc = "process_point_annotations"
    /\ LET point_annotations == findall_class(svg, "circle", "circle_annotation")
           point_names == findall_class_parent_text(svg, "circle", "circle_annotation")
           r == process_point_annotations(svg, point_names, point_annotations,
                                          parents_of(point_annotations))
       IN /\ points' = r.out
          /\ warnings' = warnings \o r.warns
    /\ pc' = "process_pose_annotations"
    /\ UNCHANGED <<lazyMap, svg, map_info, group, ret, poses, regions, doors,
                   path_poses, path_regions, pixel, problems, raised>>

ProcessPoseAnnotations ==
    /\ pc = "process_pose_annotations"
    /\ LET pose_annotations == findall_class(svg, "line", "pose_line_annotation")
           pose_names == findall_class_parent_text(svg, "line", "pose_line_annotation")
           r == process_pose_annotations(svg, pose_names, pose_annotations,
                                         parents_of(pose_annotations))
       IN /\ poses' = r.out
          /\ warnings' = warnings \o r.warns
    /\ pc' = "process_region_annotations"
    /\ UNCHANGED <<lazyMap, svg, map_info, group, ret, points, regions, doors,
                   path_poses, path_regions, pixel, problems, raised>>

ProcessRegionAnnotations ==
    /\ pc = "process_region_annotations"
    /\ LET region_annotations == findall_class(svg, "polygon", "region_annotation")
           region_names == findall_class_parent_text(svg, "polygon", "region_annotation")
           r == process_region_annotations(svg, region_names, region_annotations,
                                           parents_of(region_annotations), lazyMap)
       IN /\ regions' = r.out
          /\ warnings' = warnings \o r.warns
    /\ pc' = "process_door_groups"
    /\ UNCHANGED <<lazyMap, svg, map_info, group, ret, points, poses, doors,
                   path_poses, path_regions, pixel, problems, raised>>

ProcessDoorGroups ==
    /\ pc = "process_door_groups"
    /\ LET r == process_door_groups(svg, door_groups(svg))
       IN /\ warnings' = warnings \o r.warns
          /\ IF r.raised # "none"
             THEN raised' = r.raised /\ pc' = "raised" /\ UNCHANGED doors
             ELSE doors' = r.out /\ pc' = "process_paths" /\ UNCHANGED raised
    /\ UNCHANGED <<lazyMap, svg, map_info, group, ret, points, poses, regions,
                   path_poses, path_regions, pixel, problems>>

ProcessPaths ==
    /\ pc = "process_paths"
    /\ LET r == process_paths(svg, path_groups(svg), lazyMap)
       IN /\ path_poses' = r.poses
          /\ path_regions' = r.regions
          /\ warnings' = warnings \o r.warns
    /\ pc' = "point_groups"
    /\ UNCHANGED <<lazyMap, svg, map_info, group, ret, points, poses, regions, doors,
                   pixel, problems, raised>>

\* the loop over point_groups, the three concatenations and the return
LoadSvgReturn ==
    /\ pc = "point_groups"
    /\ LET r == extra_points(svg, point_groups(svg))
       IN /\ warnings' = warnings \o r.warns
          /\ IF r.raised # "none"
             THEN /\ raised' = r.raised
                  /\ pc' = "raised"
                  /\ UNCHANGED <<points, poses, regions, pixel>>
             ELSE /\ points' = points \o r.out
                  /\ poses' = poses \o path_poses
                  /\ regions' = regions \o path_regions
                  /\ pixel' = [points |-> points \o r.out, poses |-> poses \o path_poses,
                               regions |-> regions \o path_regions, doors |-> doors]
                  /\ pc' = "loaded"
                  /\ UNCHANGED raised
    /\ UNCHANGED <<lazyMap, svg, map_info, group, ret, doors, path_poses, path_regions, problems>>

\* use_pixel_coords is False
TransformToMapCoords ==
    /\ pc = "loaded"
    /\ LET r == transform_to_map_coords(map_info, points, poses, regions, doors)
       IN /\ points' = r.points
          /\ poses' = r.poses
          /\ regions' = r.regions
          /\ doors' = r.doors
    /\ pc' = "map_coords"
    /\ UNCHANGED <<lazyMap, svg, map_info, group, ret, path_poses, path_regions, pixel,
                   warnings, problems, raised>>

\* use_pixel_coords is True
ReturnPixelCoords ==
    /\ pc = "loaded"
    /\ pc' = "pixel_coords"
    /\ UNCHANGED <<lazyMap, svg, map_info, group, ret, points, poses, regions, doors,
                   path_poses, path_regions, pixel, warnings, problems, raised>>

Next ==
    \/ CheckSvgValid
    \/ ProcessPointAnnotations
    \/ ProcessPoseAnnotations
    \/ ProcessRegionAnnotations
    \/ ProcessDoorGroups
    \/ ProcessPaths
    \/ LoadSvgReturn
    \/ TransformToMapCoords
    \/ ReturnPixelCoords

\* what the YAML file and the PGM image give
MapInfo == [width |-> 40, height |-> 30, resolution |-> 2, origin |-> <<-50000, 70000>>]

NoGroup == g_el(EmptyAttrib, <<>>)
NoRet == [ok |-> FALSE, t |-> <<0, 0>>]

Merge(f, g) == [k \in DOMAIN f \cup DOMAIN g |-> IF k \in DOMAIN f THEN f[k] ELSE g[k]]

\* a root as the annotation tool writes it for MapInfo, and its image
ToolRoot == [viewBox |-> target_viewbox(MapInfo)]
ToolImage == image_el(EmptyAttrib)

InitRest ==
    /\ pc = "check_svg_valid"
    /\ lazyMap \in BOOLEAN
    /\ map_info = MapInfo
    /\ group = NoGroup
    /\ ret = NoRet
    /\ points = <<>> /\ poses = <<>> /\ regions = <<>> /\ doors = <<>>
    /\ path_poses = <<>> /\ path_regions = <<>>
    /\ pixel = NoCollections
    /\ warnings = <<>>
    /\ problems = <<>>
    /\ raised = "none"

Init ==
    /\ svg \in {Document(ToolRoot, ToolImage, kinds) : kinds \in SeqsUpTo(GroupKinds, MaxGroups)}
    /\ InitRest

Spec == Init /\ [][Next]_vars

(***************************************************************************)
(* load_svg as one function                                                *)
(***************************************************************************)
FirstRaised(a, b) == IF a # "none" THEN a ELSE b

\* lines 224-228, and the warnings in the order the calls issue them
LoadSvgResult(pts, pss, rgs, drs, pths, extra) ==
    [raised  |-> FirstRaised(drs.raised, extra.raised),
     points  |-> pts.out \o extra.out,
     poses   |-> pss.out \o pths.poses,
     regions |-> rgs.out \o pths.regions,
     doors   |-> drs.out,
     warns   |-> pts.warns \o pss.warns \o rgs.warns \o drs.warns \o
                 (IF drs.raised # "none" THEN <<>> ELSE pths.warns \o extra.warns)]

load_svg(doc, lazy) ==
    LoadSvgResult(
        process_point_annotations(doc,
            findall_class_parent_text(doc, "circle", "circle_annotation"),
            findall_class(doc, "circle", "circle_annotation"),
            parents_of(findall_class(doc, "circle", "circle_annotation"))),
        process_pose_annotations(doc,
            findall_class_parent_text(doc, "line", "pose_line_annotation"),
            findall_class(doc, "line", "pose_line_annotation"),
            parents_of(findall_class(doc, "line", "pose_line_annotation"))),
        process_region_annotations(doc,
            findall_class_parent_text(doc, "polygon", "region_annotation"),
            findall_class(doc, "polygon", "region_annotation"),
            parents_of(findall_class(doc, "polygon", "region_annotation")), lazy),
        process_door_groups(doc, door_groups(doc)),
        process_paths(doc, path_groups(doc), lazy),
        extra_points(doc, point_groups(doc)))

(***************************************************************************)
(* check_svg_valid over the roots and images of the model                  *)
(***************************************************************************)
Optional(S) == {EmptyAttrib} \cup S

ViewBoxes ==
    {target_viewbox(MapInfo),
     <<"0", " ", "0", " ", "4", "0", ".", "0", " ", "3", "0", ".", "0">>,
     <<"0", " ", "0", " ", "6", "4", " ", "4", "8">>}

Sizes ==
    {[width |-> 400000, height |-> 300000],
     [width |-> 640000, height |-> 300000],
     [width |-> 400000]}

Origins == {[x |-> 0, y |-> 0], [x |-> 0, y |-> 25000], [x |-> 0]}

RootAttribs ==
    {Merge(v, sz) : v \in Optional({[viewBox |-> b] : b \in ViewBoxes}), sz \in Optional(Sizes)}

Images ==
    {NoElement} \cup {image_el(Merge(o, sz)) : o \in Optional(Origins), sz \in Optional(Sizes)}

InitCheck ==
    /\ svg \in {Document(r, im, kinds) :
                  r \in RootAttribs, im \in Images,
                  kinds \in SeqsUpTo({<<"TaggedPoint", <<>>>>}, 1)}
    /\ InitRest

SpecCheck == InitCheck /\ [][Next]_vars

(***************************************************************************)
(* get_group_transform over generated transform texts                      *)
(***************************************************************************)
Numbers ==
    {<<"5">>, <<"-", "2">>, <<"+", ".", "5">>, <<"1", ".", "2", "3", "4", "6">>,
     <<"3", ".">>, <<>>}

Separators == {<<",">>, <<" ">>, <<",", " ">>}

RECURSIVE Join(_, _)
Join(args, sep) ==
    IF Len(args) = 0 THEN <<>>
    ELSE IF Len(args) = 1 THEN args[1]
    ELSE args[1] \o sep \o Join(Tail(args), sep)

TransformTexts ==
    {pre \o f \o <<"(">> \o Join(args, sep) \o <<")">> \o suf :
        pre \in {<<>>, <<" ">>},
        f \in {W_translate, W_scale, W_rotate, W_matrix},
        args \in SeqsUpTo(Numbers, MaxArgs),
        sep \in Separators,
        suf \in {<<>>, <<" ">> \o T_scale, <<")">>, T_translate}}

GetGroupTransform ==
    /\ pc = "get_group_transform"
    /\ ret' = get_group_transform(group)
    /\ raised' = IF get_group_transform(group).ok THEN "none" ELSE "RuntimeError"
    /\ pc' = IF get_group_transform(group).ok THEN "returned" ELSE "raised"
    /\ UNCHANGED <<lazyMap, svg, map_info, group, points, poses, regions, doors,
                   path_poses, path_regions, pixel, warnings, problems>>

NextTransform == GetGroupTransform

InitTransform ==
    /\ pc = "get_group_transform"
    /\ group \in {NoGroup} \cup {g_el([transform |-> t], <<>>) : t \in TransformTexts}
    /\ lazyMap = FALSE
    /\ svg = Document(ToolRoot, ToolImage, <<>>)
    /\ map_info = MapInfo
    /\ ret = NoRet
    /\ points = <<>> /\ poses = <<>> /\ regions = <<>> /\ doors = <<>>
    /\ path_poses = <<>> /\ path_regions = <<>>
    /\ pixel = NoCollections
    /\ warnings = <<>>
    /\ problems = <<>>
    /\ raised = "none"

SpecTransform == InitTransform /\ [][NextTransform]_vars

(***************************************************************************)
(* Properties                                                              *)
(***************************************************************************)
Range(q) == {q[n] : n \in DOMAIN q}

GroupIds == 1..Len(svg.groups)

Translate(i) == get_group_transform(svg.groups[i])

Label(i) == get_text_from_group(svg.groups[i])

Circles(i) == ChildrenOf(svg.groups[i], "circle")

HasChild(i, tag) == ChildrenOf(svg.groups[i], tag) # <<>>

Segments(i) == find(svg.groups[i], "path").attrib["d"]

SingleLine(i) == Len(Segments(i)) = 1 /\ is_line(Segments(i)[1])

Marked(r) == "class" \in DOMAIN El(svg, r).attrib

\* the warnings issued for group i
WarningsFor(i) == {n \in DOMAIN warnings : warnings[n].src = i}

\* what load_svg returned
Returned == pc = "loaded"

\* ---------------------------------------------------------------- C1
\* a group load_svg cannot turn into an annotation: a two-child circle group with no
\* label, a four-child circle group with no label, with no path, or with a path that
\* is not a single line
Defective(i) ==
    /\ HasChild(i, "circle")
    /\ \/ Len(svg.groups[i].children) = 2 /\ ~Label(i).found
       \/ /\ Len(svg.groups[i].children) = 4
          /\ \/ ~Label(i).found
             \/ ~HasChild(i, "path")
             \/ ~SingleLine(i)

\* C1: load_svg completes on every document and returns its collections; a
\* defective annotation group is skipped with a warning and never ends the parse.
C1_NoDefectAbortsTheParse ==
    /\ raised = "none"
    /\ Returned => \A i \in GroupIds : Defective(i) => WarningsFor(i) # {}

\* ---------------------------------------------------------------- C2
\* the text is exactly translate(A,B) with A and B signed decimals
SingleTranslate(t) ==
    \E j \in 1..Len(t), k \in 1..Len(t) :
        /\ j < k /\ k = Len(t)
        /\ StartsWith(t, W_translate \o <<"(">>)
        /\ t[j] = "," /\ t[k] = ")"
        /\ float_pattern(Sub(t, Len(W_translate) + 2, j))
        /\ float_pattern(Sub(t, j + 1, k))

Arguments(t) ==
    LET j == CHOOSE j \in 1..Len(t) : t[j] = ","
    IN <<Round3(PyFloat(Sub(t, Len(W_translate) + 2, j))),
         Round3(PyFloat(Sub(t, j + 1, Len(t))))>>

\* C2: get_group_transform returns (0,0) without a transform attribute, (A,B) for
\* exactly translate(A,B), and raises RuntimeError for every other transform text.
C2_OnlyASingleTranslateResolves ==
    pc # "get_group_transform" =>
        IF "transform" \notin DOMAIN group.attrib
        THEN pc = "returned" /\ ret.t = <<0, 0>>
        ELSE IF SingleTranslate(group.attrib["transform"])
        THEN pc = "returned" /\ ret.t = Arguments(group.attrib["transform"])
        ELSE pc = "raised" /\ raised = "RuntimeError"

\* ---------------------------------------------------------------- C3
\* a two-child path group with a label and a resolvable transform
LabelledPathGroup(i) ==
    /\ Len(svg.groups[i].children) = 2
    /\ HasChild(i, "path")
    /\ Label(i).found
    /\ Translate(i).ok

From(entries, i) == SelectSeq(entries, LAMBDA e : e.src[1] = i)

Offset(p, i) == Plus(Rounded(p), Translate(i).t)

\* C3: after process_paths, a labelled two-child path group gave a pose when its path
\* is one straight line, a region of the segments' start points when it is two or
\* more straight lines, and otherwise nothing but a warning.
C3_PathsAreClassifiedBySegments ==
    pc = "point_groups" =>
        \A i \in GroupIds : LabelledPathGroup(i) =>
            IF SingleLine(i)
            THEN /\ Len(From(path_poses, i)) = 1
                 /\ From(path_poses, i)[1].name = Label(i).text
                 /\ From(path_poses, i)[1].p1 = Offset(Segments(i)[1].start, i)
                 /\ From(path_poses, i)[1].p2 = Offset(Segments(i)[1].end, i)
                 /\ From(path_regions, i) = <<>>
            ELSE IF Len(Segments(i)) >= 2 /\ all_lines(Segments(i))
            THEN /\ Len(From(path_regions, i)) = 1
                 /\ From(path_regions, i)[1].name = Label(i).text
                 /\ From(path_regions, i)[1].points =
                        [n \in 1..Len(Segments(i)) |-> Offset(Segments(i)[n].start, i)]
                 /\ From(path_poses, i) = <<>>
            ELSE /\ From(path_poses, i) = <<>>
                 /\ From(path_regions, i) = <<>>
                 /\ \E n \in WarningsFor(i) : warnings[n].fn = "path"

\* ---------------------------------------------------------------- C4
\* C4: no marked element is read again by the heuristic strategy: the points come
\* from distinct circles, and no approach point of a door is a marked circle.
C4_NoElementIsCountedTwice ==
    Returned =>
        /\ \A m, n \in DOMAIN points : m # n => points[m].src # points[n].src
        /\ \A d \in DOMAIN doors : \A r \in Range(doors[d].approach_src) : ~Marked(r)

\* ---------------------------------------------------------------- C5
DoorsAreWellFormed ==
    \A d \in DOMAIN doors :
        LET i == doors[d].src
        IN /\ HasChild(i, "path") /\ SingleLine(i)
           /\ doors[d].line = <<Offset(Segments(i)[1].start, i), Offset(Segments(i)[1].end, i)>>
           /\ Len(doors[d].approach_points) = 2
           /\ \A c \in 1..2 :
                 \E j \in Range(Circles(i)) :
                    doors[d].approach_points[c] =
                        Offset(<<svg.groups[i].children[j].attrib["cx"],
                                 svg.groups[i].children[j].attrib["cy"]>>, i)

\* a four-child circle group that cannot be a door
RejectedDoor(i) ==
    /\ HasChild(i, "circle")
    /\ Len(svg.groups[i].children) = 4
    /\ \/ Len(Circles(i)) # 2
       \/ HasChild(i, "path") /\ ~SingleLine(i)

BadDoorsAreWarnedOf ==
    \A i \in GroupIds : RejectedDoor(i) =>
        /\ \A d \in DOMAIN doors : doors[d].src # i
        /\ \E n \in WarningsFor(i) :
              warnings[n].fn \in {"door group", "door approach points", "door line"}

\* C5: process_door_groups leaves only doors with a single-line threshold and two
\* approach points, and every four-child circle group with other than two circles
\* or with a path that is not a single line gives no door and a warning.
C5_DoorsAreWholeOrWarnedOf ==
    [][pc = "process_door_groups" => (DoorsAreWellFormed /\ BadDoorsAreWarnedOf)']_vars

\* ---------------------------------------------------------------- C6
\* C6: every region load_svg returns has at least three vertices.
C6_RegionsHaveThreeVertices ==
    Returned => \A n \in DOMAIN regions : Len(regions[n].points) >= 3

\* ---------------------------------------------------------------- C7
\* the checks taken one by one, each skipped when what it reads is missing
Mismatch(a) ==
    /\ {"width", "height"} \subseteq DOMAIN a
    /\ a["width"] # map_info.width * 10000 \/ a["height"] # map_info.height * 10000

IndependentChecks ==
    (IF "viewBox" \in DOMAIN svg.attrib /\ svg.attrib["viewBox"] # target_viewbox(map_info)
     THEN <<"viewbox">> ELSE <<>>)
    \o (IF Mismatch(svg.attrib) THEN <<"dimensions">> ELSE <<>>)
    \o (IF /\ svg.image.tag = "image"
           /\ {"x", "y"} \subseteq DOMAIN svg.image.attrib
           /\ svg.image.attrib["x"] # 0 \/ svg.image.attrib["y"] # 0
        THEN <<"origin">> ELSE <<>>)
    \o (IF svg.image.tag = "image" /\ Mismatch(svg.image.attrib) THEN <<"dimensions">> ELSE <<>>)

\* C7: check_svg_valid never ends in an exception: it returns the problems of the
\* checks that can be made, and skips a check whose attribute or element is missing.
C7_CheckNeverFails ==
    [][pc = "check_svg_valid" =>
          /\ pc' # "raised"
          /\ [n \in DOMAIN problems' |-> problems'[n].kind] = IndependentChecks]_vars

\* ---------------------------------------------------------------- C8
\* group i is, but for its transform, an annotation of one of the kinds load_svg reads
WellFormedAnnotation(i) ==
    LET c == svg.groups[i].children
    IN \/ /\ Len(c) = 2 /\ c[2].tag = "text"
          /\ \/ HasClass(c[1], "circle", "circle_annotation")
             \/ HasClass(c[1], "line", "pose_line_annotation")
             \/ HasClass(c[1], "polygon", "region_annotation")
             \/ c[1].tag = "circle" /\ "class" \notin DOMAIN c[1].attrib
             \/ c[1].tag = "path" /\ all_lines(Segments(i)) /\ Len(Segments(i)) \in {1, 3}
       \/ /\ Len(c) = 4 /\ c[1].tag = "path" /\ SingleLine(i)
          /\ c[2].tag = "circle" /\ "class" \notin DOMAIN c[2].attrib
          /\ c[3].tag = "circle" /\ "class" \notin DOMAIN c[3].attrib
          /\ c[4].tag = "text"

Without(doc, i) ==
    [doc EXCEPT !.groups = SubSeq(doc.groups, 1, i - 1) \o SubSeq(doc.groups, i + 1, Len(doc.groups))]

\* entries and warnings without the record of where they were read
PointsOf(q) == [n \in DOMAIN q |-> <<q[n].name, q[n].coord>>]
PoseEntries(q) == [n \in DOMAIN q |-> <<q[n].name, q[n].p1, q[n].p2>>]
RegionEntries(q) == [n \in DOMAIN q |-> <<q[n].name, q[n].points>>]
DoorEntries(q) == [n \in DOMAIN q |-> <<q[n].name, q[n].line, q[n].approach_points>>]
WarningEntries(q) == [n \in DOMAIN q |-> <<q[n].fn, q[n].name, q[n].detail>>]

SameAs(o, i) ==
    /\ o.raised = "none"
    /\ PointsOf(points) = PointsOf(o.points)
    /\ PoseEntries(poses) = PoseEntries(o.poses)
    /\ RegionEntries(regions) = RegionEntries(o.regions)
    /\ DoorEntries(doors) = DoorEntries(o.doors)
    /\ WarningEntries(SelectSeq(warnings, LAMBDA w : w.src # i)) = WarningEntries(o.warns)

\* C8: a well-formed annotation in a group whose transform is rejected gives no entry
\* and exactly one warning, which names the group and its transform text, and the
\* rest of the document is read as if that group were not there.
C8_OneWarningForARejectedTransform ==
    Returned =>
        \A i \in GroupIds : (WellFormedAnnotation(i) /\ ~Translate(i).ok) =>
            /\ \A n \in DOMAIN points : points[n].src[1] # i
            /\ \A n \in DOMAIN poses : poses[n].src[1] # i
            /\ \A n \in DOMAIN regions : regions[n].src[1] # i
            /\ \A n \in DOMAIN doors : doors[n].src # i
            /\ Cardinality(WarningsFor(i)) = 1
            /\ \A n \in WarningsFor(i) :
                  /\ warnings[n].name = Label(i).text
                  /\ warnings[n].detail = svg.groups[i].attrib["transform"]
            /\ SameAs(load_svg(Without(svg, i), lazyMap), i)

\* ---------------------------------------------------------------- C9
SiblingTexts(r) ==
    {svg.groups[r[1]].children[j].text : j \in Range(ChildrenOf(svg.groups[r[1]], "text"))}

\* C9: every tagged point, pose and region is named by a text child of the marked
\* shape's own parent and placed by that parent's transform.
C9_TaggedAnnotationsUseTheirOwnParent ==
    Returned =>
        /\ \A n \in DOMAIN points : Marked(points[n].src) =>
              /\ points[n].name \in SiblingTexts(points[n].src)
              /\ points[n].coord =
                    Offset(<<El(svg, points[n].src).attrib["cx"], El(svg, points[n].src).attrib["cy"]>>,
                           points[n].src[1])
        /\ \A n \in DOMAIN poses : Marked(poses[n].src) =>
              /\ poses[n].name \in SiblingTexts(poses[n].src)
              /\ poses[n].p1 =
                    Offset(<<El(svg, poses[n].src).attrib["x1"], El(svg, poses[n].src).attrib["y1"]>>,
                           poses[n].src[1])
              /\ poses[n].p2 =
                    Offset(<<El(svg, poses[n].src).attrib["x2"], El(svg, poses[n].src).attrib["y2"]>>,
                           poses[n].src[1])
        /\ \A n \in DOMAIN regions : Marked(regions[n].src) =>
              /\ regions[n].name \in SiblingTexts(regions[n].src)
              /\ regions[n].points =
                    [v \in 1..Len(El(svg, regions[n].src).attrib["points"]) |->
                        Offset(El(svg, regions[n].src).attrib["points"][v], regions[n].src[1])]

\* ---------------------------------------------------------------- C10
Converted(p) == point_to_map_coords(map_info, p)

\* C10: transform_to_map_coords keeps the number, the order and the names of the
\* entries of all four collections, the vertices of each region and the approach
\* points of each door, and replaces every coordinate by its conversion.
C10_ProjectionChangesOnlyCoordinates ==
    pc = "map_coords" =>
        /\ Len(points) = Len(pixel.points)
        /\ Len(poses) = Len(pixel.poses)
        /\ Len(regions) = Len(pixel.regions)
        /\ Len(doors) = Len(pixel.doors)
        /\ \A n \in DOMAIN points :
              /\ points[n].name = pixel.points[n].name
              /\ points[n].src = pixel.points[n].src
              /\ points[n].coord = Converted(pixel.points[n].coord)
        /\ \A n \in DOMAIN poses :
              /\ poses[n].name = pixel.poses[n].name
              /\ poses[n].src = pixel.poses[n].src
              /\ poses[n].p1 = Converted(pixel.poses[n].p1)
              /\ poses[n].p2 = Converted(pixel.poses[n].p2)
        /\ \A n \in DOMAIN regions :
              /\ regions[n].name = pixel.regions[n].name
              /\ regions[n].src = pixel.regions[n].src
              /\ Len(regions[n].points) = Len(pixel.regions[n].points)
              /\ \A v \in DOMAIN regions[n].points :
                    regions[n].points[v] = Converted(pixel.regions[n].points[v])
        /\ \A n \in DOMAIN doors :
              /\ doors[n].name = pixel.doors[n].name
              /\ doors[n].src = pixel.doors[n].src
              /\ doors[n].approach_src = pixel.doors[n].approach_src
              /\ doors[n].line = <<Converted(pixel.doors[n].line[1]), Converted(pixel.doors[n].line[2])>>
              /\ Len(doors[n].approach_points) = 2
              /\ \A c \in 1..2 :
                    doors[n].approach_points[c] = Converted(pixel.doors[n].approach_points[c])

\* all four collections hold an entry and have been projected
C10_Witness ==
    /\ pc = "map_coords"
    /\ points # <<>> /\ poses # <<>> /\ regions # <<>> /\ doors # <<>>
    /\ \E n \in DOMAIN regions : Len(regions[n].points) >= 3

====
